---- MODULE Spec2Model ----
(***************************************************************************)
(* A model of 0x02-redis_basic/exercise.py: the Cache facade over a Redis  *)
(* database, its two decorators (count_calls, call_history) and replay.    *)
(*                                                                         *)
(* Text is a sequence of Unicode code points, a payload a sequence of      *)
(* bytes (0..255); the conversions between Python values, text and bytes   *)
(* are computed, so that "abc" is <<97, 98, 99>> and "42" is <<52, 50>>.   *)
(***************************************************************************)
EXTENDS Integers, Sequences, FiniteSets, TLC

VARIABLES
    db,       \* the Redis database: key -> Nil, a string or a list
    cache,    \* cache[c]: client c holds a Cache instance (self._redis)
    pc,       \* pc[c]: position of client c inside Cache.store, 0 when idle
    frame,    \* frame[c]: args, kwargs and output of the store call in flight
    issued,   \* the keys uuid.uuid4() has produced so far
    calls,    \* history variable: store calls started since the last flushdb
    log,      \* history variable: the store calls that returned, in order
    snap,     \* history variable: snap[c] is the database when c's call began
    flushedInFlight,
              \* history variable: the last flushdb ran while a store call
              \* was in flight
    last      \* the operation that ended last, with its outcome, or the
              \* store call that has begun since

vars ==
    <<db, cache, pc, frame, issued, calls, log, snap, flushedInFlight, last>>

\* ---------------------------------------------------------------- bounds

\* store calls started per flushed database (the counter never exceeds this)
MaxCalls == 2
\* keys uuid4 can produce in one behaviour
NumUUIDs == 2

\* ---------------------------------------------------------- Python values

PyStr(s) == [t |-> "str", v |-> s]
PyBytes(b) == [t |-> "bytes", v |-> b]
PyInt(n) == [t |-> "int", v |-> <<n>>]
\* the finite float m / 10^e, e >= 1, in the form repr() prints it
PyFloat(m, e) == [t |-> "float", v |-> <<m, e>>]
PyNaN == [t |-> "float", v |-> <<>>]
PyNone == [t |-> "none", v |-> <<>>]

\* how a call ends: a returned value, or a raised exception
Ok(x) == [exc |-> "", val |-> x]
Raise(e) == [exc |-> e, val |-> PyNone]

\* ------------------------------------------------------------------ text

Range(s) == {s[i] : i \in 1..Len(s)}

RECURSIVE Flatten(_)
Flatten(ss) == IF ss = <<>> THEN <<>> ELSE Head(ss) \o Flatten(Tail(ss))

RECURSIVE NatDigits(_)
NatDigits(n) ==
    IF n < 10 THEN <<48 + n>> ELSE NatDigits(n \div 10) \o <<48 + (n % 10)>>

\* repr(int): a minus sign and the decimal digits
IntRepr(n) == IF n < 0 THEN <<45>> \o NatDigits(-n) ELSE NatDigits(n)

RECURSIVE Pow10(_)
Pow10(e) == IF e = 0 THEN 1 ELSE 10 * Pow10(e - 1)

RECURSIVE PadDigits(_, _)
PadDigits(n, width) ==
    IF width = 0 THEN <<>>
    ELSE PadDigits(n \div 10, width - 1) \o <<48 + (n % 10)>>

\* repr(float) of a float in positional notation, and of nan
FloatRepr(x) ==
    IF x = PyNaN THEN <<110, 97, 110>>
    ELSE LET m == x.v[1]
             e == x.v[2]
             a == IF m < 0 THEN -m ELSE m
         IN (IF m < 0 THEN <<45>> ELSE <<>>)
                \o NatDigits(a \div Pow10(e)) \o <<46>>
                \o PadDigits(a % Pow10(e), e)

HexDigit(n) == IF n < 10 THEN 48 + n ELSE 87 + n

\* the quote repr() picks: " when the text holds ' and no ", else '
ReprQuote(s) == IF 39 \in Range(s) /\ ~(34 \in Range(s)) THEN 34 ELSE 39

\* one character of repr(str) / repr(bytes); wide is TRUE for str, whose
\* printable non-ASCII characters are shown as they are
ReprChar(c, q, wide) ==
    IF c = 92 THEN <<92, 92>>
    ELSE IF c = q THEN <<92, q>>
    ELSE IF c = 9 THEN <<92, 116>>
    ELSE IF c = 10 THEN <<92, 110>>
    ELSE IF c = 13 THEN <<92, 114>>
    ELSE IF c < 32 \/ (c >= 127 /\ (~wide \/ c <= 160 \/ c = 173))
         THEN <<92, 120, HexDigit(c \div 16), HexDigit(c % 16)>>
    ELSE <<c>>

ReprStr(s) ==
    LET q == ReprQuote(s)
    IN <<q>> \o Flatten([i \in 1..Len(s) |-> ReprChar(s[i], q, TRUE)]) \o <<q>>

ReprBytes(b) ==
    LET q == ReprQuote(b)
    IN <<98, q>> \o Flatten([i \in 1..Len(b) |-> ReprChar(b[i], q, FALSE)])
           \o <<q>>

\* repr(x)
PyRepr(x) ==
    CASE x.t = "str" -> ReprStr(x.v)
      [] x.t = "bytes" -> ReprBytes(x.v)
      [] x.t = "int" -> IntRepr(x.v[1])
      [] x.t = "float" -> FloatRepr(x)
      [] OTHER -> <<78, 111, 110, 101>>

\* str(x): the text itself for a str, repr(x) otherwise
PyStrOf(x) == IF x.t = "str" THEN x.v ELSE PyRepr(x)

RECURSIVE JoinReprs(_)
JoinReprs(args) ==
    IF args = <<>> THEN <<>>
    ELSE IF Len(args) = 1 THEN PyRepr(args[1])
    ELSE PyRepr(args[1]) \o <<44, 32>> \o JoinReprs(Tail(args))

\* str(args) of the tuple of positional arguments: (), (a,), (a, b)
TupleStr(args) ==
    <<40>> \o JoinReprs(args) \o (IF Len(args) = 1 THEN <<44>> ELSE <<>>)
        \o <<41>>

\* ----------------------------------------------------------------- UTF-8

IsSurrogate(c) == c >= 55296 /\ c <= 57343

EncodeCp(c) ==
    IF c < 128 THEN <<c>>
    ELSE IF c < 2048 THEN <<192 + (c \div 64), 128 + (c % 64)>>
    ELSE IF c < 65536
         THEN <<224 + (c \div 4096), 128 + ((c \div 64) % 64), 128 + (c % 64)>>
    ELSE <<240 + (c \div 262144), 128 + ((c \div 4096) % 64),
           128 + ((c \div 64) % 64), 128 + (c % 64)>>

\* s.encode("utf-8"): ok is FALSE for UnicodeEncodeError (a lone surrogate)
Utf8Encode(s) ==
    IF \E i \in 1..Len(s) : IsSurrogate(s[i])
    THEN [ok |-> FALSE, b |-> <<>>]
    ELSE [ok |-> TRUE, b |-> Flatten([i \in 1..Len(s) |-> EncodeCp(s[i])])]

IsCont(x) == x >= 128 /\ x <= 191

\* the length of the well-formed UTF-8 sequence b starts with, 0 if none
Utf8SeqLen(b) ==
    LET n == Len(b)
        b1 == b[1]
    IN IF b1 < 128 THEN 1
       ELSE IF b1 >= 194 /\ b1 <= 223
            THEN IF n >= 2 /\ IsCont(b[2]) THEN 2 ELSE 0
       ELSE IF b1 >= 224 /\ b1 <= 239
            THEN IF /\ n >= 3
                    /\ IsCont(b[2])
                    /\ IsCont(b[3])
                    /\ (b1 = 224 => b[2] >= 160)
                    /\ (b1 = 237 => b[2] <= 159)
                 THEN 3 ELSE 0
       ELSE IF b1 >= 240 /\ b1 <= 244
            THEN IF /\ n >= 4
                    /\ IsCont(b[2])
                    /\ IsCont(b[3])
                    /\ IsCont(b[4])
                    /\ (b1 = 240 => b[2] >= 144)
                    /\ (b1 = 244 => b[2] <= 143)
                 THEN 4 ELSE 0
       ELSE 0

DecodeCp(b, n) ==
    CASE n = 1 -> b[1]
      [] n = 2 -> (b[1] - 192) * 64 + (b[2] - 128)
      [] n = 3 -> (b[1] - 224) * 4096 + (b[2] - 128) * 64 + (b[3] - 128)
      [] OTHER -> (b[1] - 240) * 262144 + (b[2] - 128) * 4096
                      + (b[3] - 128) * 64 + (b[4] - 128)

\* b.decode("utf-8"): ok is FALSE for UnicodeDecodeError
RECURSIVE Utf8Decode(_)
Utf8Decode(b) ==
    IF b = <<>> THEN [ok |-> TRUE, s |-> <<>>]
    ELSE LET n == Utf8SeqLen(b)
         IN IF n = 0 THEN [ok |-> FALSE, s |-> <<>>]
            ELSE LET rest == Utf8Decode(SubSeq(b, n + 1, Len(b)))
                 IN IF rest.ok
                    THEN [ok |-> TRUE, s |-> <<DecodeCp(b, n)>> \o rest.s]
                    ELSE rest

\* --------------------------------------------------------------- parsing

IsDigit(c) == c >= 48 /\ c <= 57
IsSpace(c) == c \in {9, 10, 11, 12, 13, 32}

RECURSIVE StripLeft(_)
StripLeft(s) ==
    IF s # <<>> /\ IsSpace(Head(s)) THEN StripLeft(Tail(s)) ELSE s

RECURSIVE StripRight(_)
StripRight(s) ==
    IF s # <<>> /\ IsSpace(s[Len(s)])
    THEN StripRight(SubSeq(s, 1, Len(s) - 1)) ELSE s

Strip(s) == StripRight(StripLeft(s))

RECURSIVE DigitsValue(_)
DigitsValue(s) ==
    IF s = <<>> THEN 0
    ELSE 10 * DigitsValue(SubSeq(s, 1, Len(s) - 1)) + (s[Len(s)] - 48)

\* digits, single underscores allowed between them
IsDigitRun(u) ==
    /\ u # <<>>
    /\ IsDigit(u[1])
    /\ IsDigit(u[Len(u)])
    /\ \A i \in 1..Len(u) : IsDigit(u[i]) \/ u[i] = 95
    /\ \A i \in 1..(Len(u) - 1) : ~(u[i] = 95 /\ u[i + 1] = 95)

DropUnderscores(u) == SelectSeq(u, LAMBDA c : c # 95)

IsSign(c) == c = 43 \/ c = 45

Unsigned(t) == IF t # <<>> /\ IsSign(t[1]) THEN Tail(t) ELSE t
SignOf(t) == IF t # <<>> /\ t[1] = 45 THEN -1 ELSE 1

\* int(text), base 10: ok is FALSE for ValueError
ParseInt(s) ==
    LET t == Strip(s)
        u == Unsigned(t)
    IN IF IsDigitRun(u)
       THEN [ok |-> TRUE, n |-> SignOf(t) * DigitsValue(DropUnderscores(u))]
       ELSE [ok |-> FALSE, n |-> 0]

Lower(c) == IF c >= 65 /\ c <= 90 THEN c + 32 ELSE c

\* the float m / 10^e as repr() would print it: at least one fractional
\* digit, and no trailing zero after the first
RECURSIVE NormFloat(_, _)
NormFloat(m, e) ==
    IF e = 0 THEN PyFloat(m * 10, 1)
    ELSE IF e > 1 /\ m % 10 = 0 THEN NormFloat(m \div 10, e - 1)
    ELSE PyFloat(m, e)

\* float(text) for "nan" and for decimals in positional notation (the
\* payloads of the model hold no exponent and no infinity): ok is FALSE for
\* ValueError
ParseFloat(s) ==
    LET t == Strip(s)
        u == Unsigned(t)
        low == [i \in 1..Len(u) |-> Lower(u[i])]
        dots == {i \in 1..Len(u) : u[i] = 46}
    IN IF low = <<110, 97, 110>> THEN [ok |-> TRUE, x |-> PyNaN]
       ELSE IF dots = {}
            THEN IF IsDigitRun(u)
                 THEN [ok |-> TRUE,
                       x |-> NormFloat(
                                 SignOf(t) * DigitsValue(DropUnderscores(u)),
                                 0)]
                 ELSE [ok |-> FALSE, x |-> PyNone]
       ELSE IF Cardinality(dots) = 1
            THEN LET d == CHOOSE i \in dots : TRUE
                     ip == SubSeq(u, 1, d - 1)
                     fp == SubSeq(u, d + 1, Len(u))
                 IN IF /\ (ip = <<>> \/ IsDigitRun(ip))
                       /\ (fp = <<>> \/ IsDigitRun(fp))
                       /\ ~(ip = <<>> /\ fp = <<>>)
                    THEN [ok |-> TRUE,
                          x |-> NormFloat(
                                    SignOf(t)
                                        * DigitsValue(DropUnderscores(ip)
                                                      \o DropUnderscores(fp)),
                                    Len(DropUnderscores(fp)))]
                    ELSE [ok |-> FALSE, x |-> PyNone]
       ELSE [ok |-> FALSE, x |-> PyNone]

\* ----------------------------------------------------------------- Redis

Nil == [t |-> "nil", v |-> <<>>]
RString(b) == [t |-> "string", v |-> b]
RList(l) == [t |-> "list", v |-> l]

\* "Cache.store": store.__qualname__
StoreName == <<67, 97, 99, 104, 101, 46, 115, 116, 111, 114, 101>>
\* "Cache.get": the __qualname__ of a method no decorator wraps
GetName == <<67, 97, 99, 104, 101, 46, 103, 101, 116>>
\* ":inputs" and ":outputs"
InputsSuffix == <<58, 105, 110, 112, 117, 116, 115>>
OutputsSuffix == <<58, 111, 117, 116, 112, 117, 116, 115>>

InputsKey(name) == name \o InputsSuffix
OutputsKey(name) == name \o OutputsSuffix

\* str(uuid.uuid4()): "u1", "u2", ... stand for the random 36-character keys
UUIDs == {<<117, 48 + i>> : i \in 1..NumUUIDs}

Names == {StoreName, GetName}
Keys == UUIDs \cup Names \cup {InputsKey(n) : n \in Names}
            \cup {OutputsKey(n) : n \in Names}

\* redis-py's Encoder.encode of a value sent to the server
RedisEncodeLatin1(x) ==
    CASE x.t = "bytes" -> [exc |-> "", b |-> x.v]
      [] x.t = "int" -> [exc |-> "", b |-> IntRepr(x.v[1])]
      [] x.t = "float" -> [exc |-> "", b |-> FloatRepr(x)]
      [] x.t = "str" ->
            IF \A i \in 1..Len(x.v) : x.v[i] < 256
            THEN [exc |-> "", b |-> x.v]
            ELSE [exc |-> "UnicodeEncodeError", b |-> <<>>]
      [] OTHER -> [exc |-> "DataError", b |-> <<>>]
RedisEncode(x) ==
    CASE x.t = "bytes" -> [exc |-> "", b |-> x.v]
      [] x.t = "int" -> [exc |-> "", b |-> IntRepr(x.v[1])]
      [] x.t = "float" -> [exc |-> "", b |-> FloatRepr(x)]
      [] x.t = "str" ->
            IF Utf8Encode(x.v).ok
            THEN [exc |-> "", b |-> Utf8Encode(x.v).b]
            ELSE [exc |-> "UnicodeEncodeError", b |-> <<>>]
      [] OTHER -> [exc |-> "DataError", b |-> <<>>]

\* GET key: None for a missing key, WRONGTYPE for a list
RedisGet(d, k) ==
    CASE d[k].t = "nil" -> Ok(PyNone)
      [] d[k].t = "string" -> Ok(PyBytes(d[k].v))
      [] OTHER -> Raise("ResponseError")

\* the database after GET key: the command writes nothing
AfterGetDel(d, k) == [d EXCEPT ![k] = Nil]
AfterGet(d, k) == d

\* the database after LRANGE key 0 -1: the command writes nothing
AfterLrange(d, k) == d

\* SET key value: the database afterwards and how the command ended
RedisSet(d, k, x) ==
    LET enc == RedisEncode(x)
    IN IF enc.exc # "" THEN [db |-> d, res |-> Raise(enc.exc)]
       ELSE [db |-> [d EXCEPT ![k] = RString(enc.b)], res |-> Ok(PyNone)]

\* the payload is an integer as the server writes one
IsRedisInt(b) == ParseInt(b).ok /\ IntRepr(ParseInt(b).n) = b

\* INCR key: a missing key counts from zero
RedisIncr(d, k) ==
    CASE d[k].t = "nil" ->
            [db |-> [d EXCEPT ![k] = RString(IntRepr(1))],
             res |-> Ok(PyInt(1))]
      [] d[k].t = "string" /\ IsRedisInt(d[k].v) ->
            [db |-> [d EXCEPT ![k] = RString(IntRepr(ParseInt(d[k].v).n + 1))],
             res |-> Ok(PyInt(ParseInt(d[k].v).n + 1))]
      [] OTHER -> [db |-> d, res |-> Raise("ResponseError")]

\* RPUSH key value: append at the tail, creating the list
RedisLpush(d, k, x) ==
    LET enc == RedisEncode(x)
    IN IF enc.exc # "" THEN [db |-> d, res |-> Raise(enc.exc)]
       ELSE CASE d[k].t = "nil" ->
                    [db |-> [d EXCEPT ![k] = RList(<<enc.b>>)],
                     res |-> Ok(PyInt(1))]
              [] d[k].t = "list" ->
                    [db |-> [d EXCEPT ![k] = RList(<<enc.b>> \o d[k].v)],
                     res |-> Ok(PyInt(Len(d[k].v) + 1))]
              [] OTHER -> [db |-> d, res |-> Raise("ResponseError")]
RedisRpush(d, k, x) ==
    LET enc == RedisEncode(x)
    IN IF enc.exc # "" THEN [db |-> d, res |-> Raise(enc.exc)]
       ELSE CASE d[k].t = "nil" ->
                    [db |-> [d EXCEPT ![k] = RList(<<enc.b>>)],
                     res |-> Ok(PyInt(1))]
              [] d[k].t = "list" ->
                    [db |-> [d EXCEPT ![k] = RList(Append(d[k].v, enc.b))],
                     res |-> Ok(PyInt(Len(d[k].v) + 1))]
              [] OTHER -> [db |-> d, res |-> Raise("ResponseError")]

\* LRANGE key 0 -1: the whole list, empty for a missing key
RedisLrange(d, k) ==
    CASE d[k].t = "nil" -> [exc |-> "", l |-> <<>>]
      [] d[k].t = "list" -> [exc |-> "", l |-> d[k].v]
      [] OTHER -> [exc |-> "ResponseError", l |-> <<>>]

\* FLUSHDB: every key is gone
RedisFlushdbStrings(d) ==
    [k \in DOMAIN d |-> IF d[k].t = "string" THEN Nil ELSE d[k]]
RedisFlushdb(d) == [k \in DOMAIN d |-> Nil]

EmptyDb == [k \in Keys |-> Nil]

\* --------------------------------------------------------------- clients

\* the clients of the database; the sequential specification runs one
SeqClients == {1}
Clients == {1, 2}

\* the values store is called with: "abc", "e-acute" (two bytes in UTF-8),
\* b"\xff" (not UTF-8), -7, 1.5, nan, and None (no supported type)
Values ==
    {PyStr(<<97, 98, 99>>), PyStr(<<233>>), PyBytes(<<255>>), PyInt(-7),
     PyFloat(15, 1), PyNaN, PyNone}

\* the value store is called with by keyword: store(data="abc")
KwValues == {PyStr(<<97, 98, 99>>)}

\* the decode functions get is called with: none, int, float, and
\* lambda d: d.decode("utf-8")
Fns == {"", "int", "float", "utf8"}

\* the keys the reads are tried on: the entries and the counter
ReadKeys == UUIDs \cup {StoreName}

NoFrame == [args |-> <<>>, kw |-> <<>>, output |-> PyNone]

\* what an operation leaves in `last`; flushed is history: the keys that
\* held something when a construction flushed the database
Ended(c, op, key, fn, res, printed) ==
    [c |-> c, op |-> op, key |-> key, fn |-> fn, args |-> <<>>, kw |-> <<>>,
     res |-> res, printed |-> printed, flushed |-> {}]

StoreEnded(c, res) ==
    [c |-> c, op |-> "store", key |-> <<>>, fn |-> "", args |-> frame[c].args,
     kw |-> frame[c].kw, res |-> res, printed |-> <<>>, flushed |-> {}]

\* ------------------------------------------------------------ decorators

\* the statements of a call, in the order they run; each is one command
\* sent to the database

\* Cache.store itself: key = str(uuid.uuid4()); set(key, data); return key
store_method == <<"set">>

\* call_history: output = method(...), then rpush inputs, rpush outputs
call_history_early(method) ==
    <<"rpush_inputs">> \o method \o <<"rpush_outputs">>
call_history_outputs_first(method) ==
    method \o <<"rpush_outputs", "rpush_inputs">>
call_history(method) == method \o <<"rpush_inputs", "rpush_outputs">>

\* count_calls: incr(key), then return method(...)
count_calls_late(method) == method \o <<"incr">>
count_calls(method) == <<"incr">> \o method

\* @count_calls @call_history def store
StoreSteps == count_calls(call_history(store_method))

AtStep(c, stmt) ==
    pc[c] >= 1 /\ pc[c] <= Len(StoreSteps) /\ StoreSteps[pc[c]] = stmt

\* method(self, *args, **kwargs) for def store(self, data): the value bound
\* to data, or no binding (TypeError)
BindData(args, kw) ==
    IF Len(args) = 1 /\ kw = <<>> THEN <<args[1]>>
    ELSE IF args = <<>> /\ Len(kw) = 1 THEN <<kw[1]>>
    ELSE <<>>

\* a statement has run: the call goes on, or returns its output after the
\* last one
Advance(c, newdb, output) ==
    /\ db' = newdb
    /\ IF pc[c] = Len(StoreSteps)
       THEN /\ pc' = [pc EXCEPT ![c] = 0]
            /\ frame' = [frame EXCEPT ![c] = NoFrame]
            /\ last' = StoreEnded(c, Ok(output))
            /\ log' = Append(log, [args |-> frame[c].args, kw |-> frame[c].kw,
                                   output |-> output])
       ELSE /\ pc' = [pc EXCEPT ![c] = pc[c] + 1]
            /\ frame' = [frame EXCEPT ![c].output = output]
            /\ UNCHANGED <<last, log>>

\* a statement has raised: the exception leaves the call
Abort(c, exc) ==
    /\ pc' = [pc EXCEPT ![c] = 0]
    /\ frame' = [frame EXCEPT ![c] = NoFrame]
    /\ last' = StoreEnded(c, Raise(exc))
    /\ UNCHANGED <<db, log>>

\* ----------------------------------------------------------------- reads

\* fn(data) for the decode functions of Fns
ApplyFn(fn, data) ==
    CASE fn = "int" ->
            IF data.t # "bytes" THEN Raise("TypeError")
            ELSE IF ParseInt(data.v).ok THEN Ok(PyInt(ParseInt(data.v).n))
            ELSE Raise("ValueError")
      [] fn = "float" ->
            IF data.t # "bytes" THEN Raise("TypeError")
            ELSE IF ParseFloat(data.v).ok THEN Ok(ParseFloat(data.v).x)
            ELSE Raise("ValueError")
      [] OTHER ->
            IF data.t # "bytes" THEN Raise("AttributeError")
            ELSE IF Utf8Decode(data.v).ok THEN Ok(PyStr(Utf8Decode(data.v).s))
            ELSE Raise("UnicodeDecodeError")

\* Cache.get(key, fn)
get_guarded(d, key, fn) ==
    LET data == RedisGet(d, key)
    IN IF data.exc # "" THEN data
       ELSE IF fn # "" /\ data.val # PyNone THEN ApplyFn(fn, data.val)
       ELSE data
get(d, key, fn) ==
    LET data == RedisGet(d, key)
    IN IF data.exc # "" THEN data
       ELSE IF fn # "" THEN ApplyFn(fn, data.val)
       ELSE data

\* Cache.get_str(key)
get_str_lenient(d, key) ==
    LET variable == RedisGet(d, key)
    IN IF variable.exc # "" THEN variable
       ELSE IF variable.val.t # "bytes" THEN Ok(PyStr(<<>>))
       ELSE IF Utf8Decode(variable.val.v).ok
            THEN Ok(PyStr(Utf8Decode(variable.val.v).s))
       ELSE Ok(PyStr(<<>>))
get_str(d, key) ==
    LET variable == RedisGet(d, key)
    IN IF variable.exc # "" THEN variable
       ELSE IF variable.val.t # "bytes" THEN Raise("AttributeError")
       ELSE IF Utf8Decode(variable.val.v).ok
            THEN Ok(PyStr(Utf8Decode(variable.val.v).s))
       ELSE Raise("UnicodeDecodeError")

\* Cache.get_int(key)
get_int_strict(d, key) ==
    LET variable == RedisGet(d, key)
    IN IF variable.exc # "" THEN variable
       ELSE IF variable.val.t # "bytes" THEN Ok(PyInt(0))
       ELSE IF ~Utf8Decode(variable.val.v).ok THEN Ok(PyInt(0))
       ELSE IF ~ParseInt(Utf8Decode(variable.val.v).s).ok
            THEN Raise("ValueError")
       ELSE Ok(PyInt(ParseInt(Utf8Decode(variable.val.v).s).n))
get_int(d, key) ==
    LET variable == RedisGet(d, key)
    IN IF variable.exc # "" THEN variable
       ELSE IF variable.val.t # "bytes" THEN Ok(PyInt(0))
       ELSE IF ~Utf8Decode(variable.val.v).ok THEN Ok(PyInt(0))
       ELSE IF ~ParseInt(Utf8Decode(variable.val.v).s).ok THEN Ok(PyInt(0))
       ELSE Ok(PyInt(ParseInt(Utf8Decode(variable.val.v).s).n))

\* ---------------------------------------------------------------- replay

\* " was called ", " times:", "(*" and ") -> "
WasCalled == <<32, 119, 97, 115, 32, 99, 97, 108, 108, 101, 100, 32>>
Times == <<32, 116, 105, 109, 101, 115, 58>>
OpenStar == <<40, 42>>
Arrow == <<41, 32, 45, 62, 32>>

\* f'{f_name} was called {n_calls} times:'
HeaderLine(f_name, n_calls) == f_name \o WasCalled \o n_calls \o Times

\* f'{f_name}(*{i}) -> {o}'
CallLine(f_name, i, o) == f_name \o OpenStar \o i \o Arrow \o o

\* x.decode('utf-8') under try/except: "" when it fails
DecodeOrEmpty(b) == IF Utf8Decode(b).ok THEN Utf8Decode(b).s ELSE <<>>

\* n_calls after the try/except: the decoded text, or 0
CountTextParsed(got) ==
    IF got.t = "bytes" /\ Utf8Decode(got.v).ok
           /\ ParseInt(Utf8Decode(got.v).s).ok
    THEN Utf8Decode(got.v).s
    ELSE IntRepr(0)
CountText(got) ==
    IF got.t = "bytes" /\ Utf8Decode(got.v).ok
    THEN Utf8Decode(got.v).s
    ELSE IntRepr(0)

Min(a, b) == IF a <= b THEN a ELSE b

\* zip(ins, outs), a line for each pair
ZipLinesLong(f_name, ins, outs) ==
    [k \in 1..Len(ins) |->
        CallLine(f_name, DecodeOrEmpty(ins[k]),
                 IF k <= Len(outs) THEN DecodeOrEmpty(outs[k]) ELSE <<>>)]
ZipLines(f_name, ins, outs) ==
    [k \in 1..Min(Len(ins), Len(outs)) |->
        CallLine(f_name, DecodeOrEmpty(ins[k]), DecodeOrEmpty(outs[k]))]

\* replay(fn), f_name being fn.__qualname__: what it prints and how it ends
replay(d, f_name) ==
    LET n_calls == RedisGet(d, f_name)
        ins == RedisLrange(d, InputsKey(f_name))
        outs == RedisLrange(d, OutputsKey(f_name))
        header == HeaderLine(f_name, CountText(n_calls.val))
    IN IF n_calls.exc # "" THEN [res |-> n_calls, printed |-> <<>>]
       ELSE IF ins.exc # ""
            THEN [res |-> Raise(ins.exc), printed |-> <<header>>]
       ELSE IF outs.exc # ""
            THEN [res |-> Raise(outs.exc), printed |-> <<header>>]
       ELSE [res |-> Ok(PyNone),
             printed |-> <<header>> \o ZipLines(f_name, ins.l, outs.l)]

\* ------------------------------------------------------------------ Init

\* "('a',)", "('b',)", "k1", "k2", "abc", "2"
ArgsA == <<40, 39, 97, 39, 44, 41>>
ArgsB == <<40, 39, 98, 39, 44, 41>>
KeyOne == <<107, 49>>
KeyTwo == <<107, 50>>
Abc == <<97, 98, 99>>
Two == <<50>>

\* what the database may hold before the first Cache is constructed:
\* replay opens its own connection and flushes nothing
PreExisting ==
    {EmptyDb,
     \* two recorded calls, as an earlier process left them
     [EmptyDb EXCEPT ![StoreName] = RString(Two),
                     ![InputsKey(StoreName)] = RList(<<ArgsA, ArgsB>>),
                     ![OutputsKey(StoreName)] = RList(<<KeyOne, KeyTwo>>),
                     ![<<117, 49>>] = RString(Abc)],
     \* a counter that is text but no number, and one output fewer than inputs
     [EmptyDb EXCEPT ![StoreName] = RString(Abc),
                     ![InputsKey(StoreName)] = RList(<<ArgsA, ArgsB>>),
                     ![OutputsKey(StoreName)] = RList(<<KeyOne>>)],
     \* a counter and an output that are not UTF-8, one input fewer
     [EmptyDb EXCEPT ![StoreName] = RString(<<255>>),
                     ![InputsKey(StoreName)] = RList(<<ArgsA>>),
                     ![OutputsKey(StoreName)] = RList(<<(<<255>>), KeyTwo>>)],
     \* a list where the counter is read
     [EmptyDb EXCEPT ![StoreName] = RList(<<Two>>)]}

NoOp == Ended(0, "none", <<>>, "", Ok(PyNone), <<>>)

Init ==
    /\ db \in PreExisting
    /\ cache = [c \in Clients |-> FALSE]
    /\ pc = [c \in Clients |-> 0]
    /\ frame = [c \in Clients |-> NoFrame]
    /\ issued = {}
    /\ calls = 0
    /\ log = <<>>
    /\ snap = [c \in Clients |-> EmptyDb]
    /\ flushedInFlight = FALSE
    /\ last = NoOp

\* --------------------------------------------------------------- actions

InFlight == {c \in Clients : pc[c] # 0}

\* Cache(): __init__ opens a connection and flushes the database
Construct(c) ==
    /\ pc[c] = 0
    /\ db' = RedisFlushdb(db)
    /\ cache' = [cache EXCEPT ![c] = TRUE]
    /\ calls' = 0
    /\ log' = <<>>
    /\ snap' = [x \in Clients |-> EmptyDb]
    /\ flushedInFlight' = (InFlight # {})
    /\ last' = [Ended(c, "init", <<>>, "", Ok(PyNone), <<>>)
                    EXCEPT !.flushed = {k \in Keys : db[k] # Nil}]
    /\ UNCHANGED <<pc, frame, issued>>

\* cache.store(*args, **kw) is called: the outer wrapper is entered
StoreCall(c, args, kw) ==
    /\ cache[c]
    /\ pc[c] = 0
    /\ calls < MaxCalls
    /\ Cardinality(issued) + Cardinality(InFlight) < NumUUIDs
    /\ pc' = [pc EXCEPT ![c] = 1]
    /\ frame' = [frame EXCEPT ![c] = [args |-> args, kw |-> kw,
                                      output |-> PyNone]]
    /\ calls' = calls + 1
    /\ snap' = [snap EXCEPT ![c] = db]
    /\ last' = Ended(c, "call", <<>>, "", Ok(PyNone), <<>>)
    /\ UNCHANGED <<db, cache, issued, log, flushedInFlight>>

\* the database INCR works on: the server increments the value it holds
\* now, in one command
IncrViewStale(c) == [db EXCEPT ![StoreName] = snap[c][StoreName]]
IncrView(c) == db

\* count_calls.wrapper: self._redis.incr(key)
Incr(c) ==
    /\ AtStep(c, "incr")
    /\ LET r == RedisIncr(IncrView(c), StoreName)
       IN IF r.res.exc # "" THEN Abort(c, r.res.exc)
          ELSE Advance(c, r.db, frame[c].output)
    /\ UNCHANGED <<cache, issued, calls, snap, flushedInFlight>>

\* what uuid.uuid4() can return: a key it has not returned before
AnyKeys == UUIDs
FreshKeys == UUIDs \ issued

\* Cache.store: bind data, key = str(uuid.uuid4()), set(key, data)
Set(c) ==
    /\ AtStep(c, "set")
    /\ LET bound == BindData(frame[c].args, frame[c].kw)
       IN IF bound = <<>>
          THEN /\ Abort(c, "TypeError")
               /\ UNCHANGED issued
          ELSE \E key \in FreshKeys :
                  /\ issued' = issued \cup {key}
                  /\ LET r == RedisSet(db, key, bound[1])
                     IN IF r.res.exc # "" THEN Abort(c, r.res.exc)
                        ELSE Advance(c, r.db, PyStr(key))
    /\ UNCHANGED <<cache, calls, snap, flushedInFlight>>

\* call_history.wrapper: self._redis.rpush(input_key, str(args))
RpushInputs(c) ==
    /\ AtStep(c, "rpush_inputs")
    /\ LET r == RedisRpush(db, InputsKey(StoreName),
                           PyStr(TupleStr(frame[c].args)))
       IN IF r.res.exc # "" THEN Abort(c, r.res.exc)
          ELSE Advance(c, r.db, frame[c].output)
    /\ UNCHANGED <<cache, issued, calls, snap, flushedInFlight>>

\* call_history.wrapper: self._redis.rpush(output_key, str(output))
RpushOutputs(c) ==
    /\ AtStep(c, "rpush_outputs")
    /\ LET r == RedisRpush(db, OutputsKey(StoreName),
                           PyStr(PyStrOf(frame[c].output)))
       IN IF r.res.exc # "" THEN Abort(c, r.res.exc)
          ELSE Advance(c, r.db, frame[c].output)
    /\ UNCHANGED <<cache, issued, calls, snap, flushedInFlight>>

Get(c, key, fn) ==
    /\ cache[c]
    /\ pc[c] = 0
    /\ last' = Ended(c, "get", key, fn, get(db, key, fn), <<>>)
    /\ db' = AfterGet(db, key)
    /\ UNCHANGED <<cache, pc, frame, issued, calls, log, snap, flushedInFlight>>

GetStr(c, key) ==
    /\ cache[c]
    /\ pc[c] = 0
    /\ last' = Ended(c, "get_str", key, "", get_str(db, key), <<>>)
    /\ db' = AfterGet(db, key)
    /\ UNCHANGED <<cache, pc, frame, issued, calls, log, snap, flushedInFlight>>

GetInt(c, key) ==
    /\ cache[c]
    /\ pc[c] = 0
    /\ last' = Ended(c, "get_int", key, "", get_int(db, key), <<>>)
    /\ db' = AfterGet(db, key)
    /\ UNCHANGED <<cache, pc, frame, issued, calls, log, snap, flushedInFlight>>

\* replay(fn): needs no Cache, it opens a connection of its own
Replay(c, f_name) ==
    /\ pc[c] = 0
    /\ last' = Ended(c, "replay", f_name, "", replay(db, f_name).res,
                     replay(db, f_name).printed)
    /\ db' = AfterLrange(AfterLrange(AfterGet(db, f_name), InputsKey(f_name)),
                          OutputsKey(f_name))
    /\ UNCHANGED <<cache, pc, frame, issued, calls, log, snap, flushedInFlight>>

\* the ways store is called: store(v), store(), store(data=v)
CallForms ==
    {<< <<v>>, <<>> >> : v \in Values} \cup {<< <<>>, <<>> >>}
        \cup {<< <<>>, <<v>> >> : v \in KwValues}

Step(c) ==
    \/ Construct(c)
    \/ \E form \in CallForms : StoreCall(c, form[1], form[2])
    \/ Incr(c)
    \/ Set(c)
    \/ RpushInputs(c)
    \/ RpushOutputs(c)
    \/ \E key \in ReadKeys, fn \in Fns : Get(c, key, fn)
    \/ \E key \in ReadKeys : GetStr(c, key)
    \/ \E key \in ReadKeys : GetInt(c, key)
    \/ \E f_name \in Names : Replay(c, f_name)

\* one client, one call at a time
Next == \E c \in SeqClients : Step(c)

Spec == Init /\ [][Next]_vars

\* the calls the concurrent clients make: store("abc"), store(-7), and
\* store(), which raises
ConcCallForms ==
    {<< <<PyStr(<<97, 98, 99>>)>>, <<>> >>, << <<PyInt(-7)>>, <<>> >>,
     << <<>>, <<>> >>}

\* a store call of client c, one command at a time
StoreStep(c) ==
    \/ \E form \in ConcCallForms : StoreCall(c, form[1], form[2])
    \/ Incr(c)
    \/ Set(c)
    \/ RpushInputs(c)
    \/ RpushOutputs(c)

\* several clients construct a Cache and call store; the commands of their
\* calls interleave, each command atomic
ConcNext == \E c \in Clients : Construct(c) \/ StoreStep(c)

SpecConc == Init /\ [][ConcNext]_vars

\* ---------------------------------------------------------------- claims

\* no store call is in flight
Idle == \A c \in Clients : pc[c] = 0
\* a Cache has been constructed, so the database was flushed
Constructed == \E c \in Clients : cache[c]

\* the counter under Cache.store read as a number: 0 when the key is
\* missing, -1 when it holds no integer
CounterOf(d) ==
    IF d[StoreName] = Nil THEN 0
    ELSE IF d[StoreName].t = "string" /\ IsRedisInt(d[StoreName].v)
         THEN ParseInt(d[StoreName].v).n
    ELSE -1

\* the list under key k, empty when the key is missing
ListAt(d, k) == IF d[k].t = "list" THEN d[k].v ELSE <<>>

InputsOf(d) == ListAt(d, InputsKey(StoreName))
OutputsOf(d) == ListAt(d, OutputsKey(StoreName))

\* C1: between calls on one Cache, the counter under "Cache.store" equals
\* the number of store calls made since the Cache was constructed, the
\* calls that raised included.
C1_CounterEqualsCalls == (Constructed /\ Idle) => CounterOf(db) = calls

\* two calls were made, the second raised, and the counter reads 2
C1_Witness ==
    /\ Constructed
    /\ Idle
    /\ calls = 2
    /\ last.op = "store"
    /\ last.res.exc = "TypeError"
    /\ db[StoreName] = RString(<<50>>)

\* the k-th inputs and outputs elements are the renderings of the
\* arguments and of the result of the k-th call that returned
PairedWithLog ==
    /\ Len(InputsOf(db)) = Len(log)
    /\ Len(OutputsOf(db)) = Len(log)
    /\ \A k \in 1..Len(log) :
          /\ InputsOf(db)[k] = Utf8Encode(TupleStr(log[k].args)).b
          /\ OutputsOf(db)[k] = Utf8Encode(PyStrOf(log[k].output)).b

\* C2 as stated: after N calls both lists have length N
C2_LengthIsCalls ==
    (Constructed /\ Idle) =>
        /\ Len(InputsOf(db)) = calls
        /\ Len(OutputsOf(db)) = calls
        /\ PairedWithLog

\* C2: after N calls of which M returned a result, both lists have length
\* M, and the k-th output is the rendering of the result of the call whose
\* positional arguments the k-th input renders.
C2_LengthIsReturnedCalls == (Constructed /\ Idle) => PairedWithLog

\* two calls returned, with different arguments, and both are recorded
C2_Witness ==
    /\ Constructed
    /\ Idle
    /\ Len(log) = 2
    /\ log[1].args # log[2].args
    /\ Len(InputsOf(db)) = 2
    /\ Len(OutputsOf(db)) = 2

\* the history lists are as they were when c's call began
HistoryAsAtCall(c) ==
    /\ InputsOf(db) = InputsOf(snap[c])
    /\ OutputsOf(db) = OutputsOf(snap[c])

\* C3: a store call that raised has left both history lists as they were,
\* and while the wrapped operation has not returned a result nothing has
\* been appended.
C3_NoHistoryOnRaise ==
    /\ (last.op = "store" /\ last.res.exc # "") => HistoryAsAtCall(last.c)
    /\ \A c \in SeqClients :
          (pc[c] # 0 /\ frame[c].output = PyNone) => HistoryAsAtCall(c)

\* a call raised in set (None is no supported type) after an earlier call
\* was recorded
C3_Witness ==
    /\ last.op = "store"
    /\ last.res.exc = "DataError"
    /\ Len(log) = 1
    /\ Len(InputsOf(db)) = 1

\* Python's ==: a NaN equals nothing, itself included
PyEq(a, b) == a # PyNaN /\ b # PyNaN /\ a = b

\* the value the k-th recorded call stored, and the key it returned
StoredValue(k) == BindData(log[k].args, log[k].kw)[1]
StoredKey(k) == log[k].output.v

\* `last` is a read of key with the accessor that matches the type of v:
\* get_str (or get with the UTF-8 decoder) for text, get_int (or get with
\* int) for an integer, get with float for a float, get alone for bytes
MatchingRead(key, v) ==
    /\ last.key = key
    /\ \/ v.t = "str" /\ last.op = "get_str"
       \/ v.t = "str" /\ last.op = "get" /\ last.fn = "utf8"
       \/ v.t = "int" /\ last.op = "get_int"
       \/ v.t = "int" /\ last.op = "get" /\ last.fn = "int"
       \/ v.t = "float" /\ last.op = "get" /\ last.fn = "float"
       \/ v.t = "bytes" /\ last.op = "get" /\ last.fn = ""

\* C4 as stated: every stored value, read back with the matching accessor,
\* is equal to the value stored
C4_RoundTripAll ==
    \A k \in 1..Len(log) :
        MatchingRead(StoredKey(k), StoredValue(k)) =>
            last.res.exc = "" /\ PyEq(last.res.val, StoredValue(k))

\* C4: every stored value other than a floating-point NaN, read back with
\* the matching accessor, is equal to the value stored; a NaN reads back
\* as NaN, which is equal to nothing.
C4_RoundTripButNaN ==
    \A k \in 1..Len(log) :
        MatchingRead(StoredKey(k), StoredValue(k)) =>
            /\ last.res.exc = ""
            /\ StoredValue(k) # PyNaN => PyEq(last.res.val, StoredValue(k))
            /\ StoredValue(k) = PyNaN => last.res.val = PyNaN

\* text that is two bytes in UTF-8 was stored and get_str returned it
C4_Witness ==
    \E k \in 1..Len(log) :
        /\ StoredValue(k) = PyStr(<<233>>)
        /\ db[StoredKey(k)] = RString(<<195, 169>>)
        /\ last.op = "get_str"
        /\ last.key = StoredKey(k)
        /\ last.res = Ok(PyStr(<<233>>))

\* the payload under the key `last` read, None when the key is missing
PayloadRead == RedisGet(db, last.key).val

\* C5: get_int never raises on a payload; it returns n when the payload is
\* the UTF-8 text of the integer n, and 0 when the key is missing, the
\* payload is not UTF-8 or its text is no integer.
C5_GetIntLenient ==
    (last.op = "get_int" /\ db[last.key].t # "list") =>
        /\ last.res.exc = ""
        /\ last.res.val.t = "int"
        /\ PayloadRead = PyNone => last.res.val = PyInt(0)
        /\ \A n \in -99..99 :
              PayloadRead = PyBytes(IntRepr(n)) => last.res.val = PyInt(n)
        /\ (PayloadRead.t = "bytes" /\ ~Utf8Decode(PayloadRead.v).ok)
              => last.res.val = PyInt(0)
        /\ (/\ PayloadRead.t = "bytes"
            /\ Utf8Decode(PayloadRead.v).ok
            /\ ~ParseInt(Utf8Decode(PayloadRead.v).s).ok)
              => last.res.val = PyInt(0)

\* get_int of a key holding "abc" returned 0
C5_Witness ==
    /\ last.op = "get_int"
    /\ db[last.key] = RString(<<97, 98, 99>>)
    /\ last.res = Ok(PyInt(0))

\* C6: get_str returns the stored text when the key holds valid UTF-8 (the
\* text whose UTF-8 encoding is the payload), and raises when the key is
\* missing or the payload is not valid UTF-8.
C6_GetStrStrict ==
    (last.op = "get_str" /\ db[last.key].t # "list") =>
        IF PayloadRead.t = "bytes" /\ Utf8Decode(PayloadRead.v).ok
        THEN /\ last.res.exc = ""
             /\ last.res.val.t = "str"
             /\ Utf8Encode(last.res.val.v) = [ok |-> TRUE, b |-> PayloadRead.v]
        ELSE last.res.exc # ""

\* get_str of a missing key raised
C6_Witness ==
    /\ last.op = "get_str"
    /\ db[last.key] = Nil
    /\ last.res.exc = "AttributeError"

\* C7: right after a Cache is constructed, every key that held something
\* before the construction (entry, counter or history list) reads as
\* missing, and so does every other key.
C7_ConstructClears ==
    last.op = "init" =>
        /\ \A k \in last.flushed : RedisGet(db, k) = Ok(PyNone)
        /\ \A k \in Keys : db[k] = Nil

\* a Cache was constructed over a database that held a counter, both
\* history lists and an entry, written through an earlier Cache
C7_Witness ==
    /\ last.op = "init"
    /\ issued # {}
    /\ {StoreName, InputsKey(StoreName), OutputsKey(StoreName)}
           \subseteq last.flushed
    /\ last.flushed \cap UUIDs # {}

\* the header line replay printed, and the count it shows between
\* "<name> was called " and " times:"
HeaderPrinted == last.printed[1]
CountShown ==
    SubSeq(HeaderPrinted, Len(last.key) + Len(WasCalled) + 1,
           Len(HeaderPrinted) - Len(Times))

HeaderWellFormed ==
    /\ Len(last.printed) >= 1
    /\ HeaderPrinted = last.key \o WasCalled \o CountShown \o Times

\* the counter payload is text that int() or float() parses
CounterIsNumber ==
    /\ PayloadRead.t = "bytes"
    /\ Utf8Decode(PayloadRead.v).ok
    /\ \/ ParseInt(Utf8Decode(PayloadRead.v).s).ok
       \/ ParseFloat(Utf8Decode(PayloadRead.v).s).ok

\* C8 as stated: the header shows 0 unless the counter key holds a number
C8_ZeroUnlessNumber ==
    (last.op = "replay" /\ db[last.key].t # "list") =>
        /\ HeaderWellFormed
        /\ CounterIsNumber => Utf8Encode(CountShown).b = PayloadRead.v
        /\ ~CounterIsNumber => CountShown = <<48>>

\* C8: the header shows 0 when the counter key is missing or its payload
\* is not valid UTF-8; otherwise it shows the payload decoded as text,
\* whether or not that text is a number: the stored count when the counter
\* was written by the counting wrapper.
C8_ZeroUnlessText ==
    (last.op = "replay" /\ db[last.key].t # "list") =>
        /\ HeaderWellFormed
        /\ IF PayloadRead.t = "bytes" /\ Utf8Decode(PayloadRead.v).ok
           THEN Utf8Encode(CountShown).b = PayloadRead.v
           ELSE CountShown = <<48>>
        /\ (Constructed /\ last.key = StoreName) => CountShown = IntRepr(calls)

\* replay found a counter that is not UTF-8 and printed
\* "Cache.store was called 0 times:"
C8_Witness ==
    /\ last.op = "replay"
    /\ last.key = StoreName
    /\ db[StoreName] = RString(<<255>>)
    /\ HeaderPrinted = StoreName \o WasCalled \o <<48>> \o Times

\* an element of a history list as replay shows it: its text, "" when it is
\* not UTF-8
EntryText(b) == IF Utf8Decode(b).ok THEN Utf8Decode(b).s ELSE <<>>

InsRead == ListAt(db, InputsKey(last.key))
OutsRead == ListAt(db, OutputsKey(last.key))
PairsRead ==
    IF Len(InsRead) <= Len(OutsRead) THEN Len(InsRead) ELSE Len(OutsRead)

\* C9: after the header replay prints one line for each index both lists
\* have, the k-th being "name(*input) -> output" of the k-th input and the
\* k-th output, and lists of different lengths raise nothing.
C9_ReplayLines ==
    (last.op = "replay" /\ db[last.key].t # "list") =>
        /\ last.res.exc = ""
        /\ Len(last.printed) = 1 + PairsRead
        /\ \A k \in 1..PairsRead :
              last.printed[k + 1] =
                  last.key \o <<40, 42>> \o EntryText(InsRead[k])
                      \o <<41, 32, 45, 62, 32>> \o EntryText(OutsRead[k])

\* replay over two inputs and one output printed the header and one line,
\* "Cache.store(*('a',)) -> k1"
C9_Witness ==
    /\ last.op = "replay"
    /\ last.key = StoreName
    /\ Len(InsRead) = 2
    /\ Len(OutsRead) = 1
    /\ last.res.exc = ""
    /\ Len(last.printed) = 2
    /\ last.printed[2] = StoreName \o <<40, 42>> \o ArgsA
                             \o <<41, 32, 45, 62, 32>> \o KeyOne

\* C10: get with a decode function returns that function applied to the raw
\* payload, the missing sentinel included; get without one returns the raw
\* payload, None for a missing key.
C10_GetAppliesFn ==
    (last.op = "get" /\ db[last.key].t # "list") =>
        LET raw == IF db[last.key] = Nil THEN PyNone
                   ELSE PyBytes(db[last.key].v)
        IN IF last.fn = "" THEN last.res = Ok(raw)
           ELSE last.res = ApplyFn(last.fn, raw)

\* get(key, int) of a missing key applied int to None, which raised
C10_Witness ==
    /\ last.op = "get"
    /\ last.fn = "int"
    /\ db[last.key] = Nil
    /\ last.res = Raise("TypeError")

\* a is b, or b with elements appended
IsPrefix(a, b) == Len(a) <= Len(b) /\ SubSeq(b, 1, Len(a)) = a

\* in this step the counter does not decrease and both history lists keep
\* their elements, in place
NeverShrinks ==
    /\ CounterOf(db') >= CounterOf(db)
    /\ IsPrefix(InputsOf(db), InputsOf(db'))
    /\ IsPrefix(OutputsOf(db), OutputsOf(db'))

\* C11 as stated: no operation, the construction of a Cache included, lowers
\* the counter or removes or changes an element of a history list
C11_NeverShrinksAlways == [][NeverShrinks]_vars

\* C11: across store calls, reads and replays the counter never decreases
\* and the history lists only grow by appending at the end; the construction
\* of a Cache is the exception: it flushes the database, which removes the
\* counter and both lists.
C11_NeverShrinksButConstruct ==
    [][(\A c \in Clients : ~Construct(c)) => NeverShrinks]_vars

\* the counter was raised twice and each list appended to twice, and a
\* replay has read them since
C11_Witness ==
    /\ Constructed
    /\ Idle
    /\ CounterOf(db) = 2
    /\ Len(InputsOf(db)) = 2
    /\ Len(OutputsOf(db)) = 2
    /\ last.op = "replay"

\* C12: a store call that returns has written its value under a key that
\* was missing when the call began and returns that key; the keys returned
\* are distinct and each still holds the value it was stored with.
C12_FreshKeyKept ==
    /\ \A k \in 1..Len(log) :
          db[StoredKey(k)] = RString(RedisEncode(StoredValue(k)).b)
    /\ \A j, k \in 1..Len(log) : j # k => StoredKey(j) # StoredKey(k)
    /\ (last.op = "store" /\ last.res.exc = "") =>
          /\ last.res.val = log[Len(log)].output
          /\ last.res.val.t = "str"
          /\ snap[last.c][last.res.val.v] = Nil
          /\ db[last.res.val.v] # Nil

\* a second store has returned and the key of the first still holds "abc"
C12_Witness ==
    /\ Len(log) = 2
    /\ last.op = "store"
    /\ last.res.exc = ""
    /\ StoredValue(1) = PyStr(Abc)
    /\ db[StoredKey(1)] = RString(Abc)
    /\ db[StoredKey(2)] # Nil

\* the side effects the call of c has had, the database compared with the
\* one the call began with
Incremented(c) == CounterOf(db) = CounterOf(snap[c]) + 1
NotIncremented(c) == CounterOf(db) = CounterOf(snap[c])
EntryWritten(c) == \E k \in UUIDs : snap[c][k] = Nil /\ db[k] # Nil
InputAppended(c) == Len(InputsOf(db)) = Len(InputsOf(snap[c])) + 1
InputNotAppended(c) == InputsOf(db) = InputsOf(snap[c])
OutputAppended(c) == Len(OutputsOf(db)) = Len(OutputsOf(snap[c])) + 1
OutputNotAppended(c) == OutputsOf(db) = OutputsOf(snap[c])

\* C13: inside one call of Cache.store the counter is incremented first,
\* then the entry is written, then the inputs list is appended to, then the
\* outputs list; a call that returned has had all four effects.
C13_StoreOrder ==
    /\ \A c \in SeqClients :
          pc[c] # 0 =>
              /\ IF pc[c] > 1 THEN Incremented(c) ELSE NotIncremented(c)
              /\ EntryWritten(c) <=> pc[c] > 2
              /\ IF pc[c] > 3 THEN InputAppended(c) ELSE InputNotAppended(c)
              /\ OutputNotAppended(c)
    /\ (last.op = "store" /\ last.res.exc = "") =>
          /\ Incremented(last.c)
          /\ EntryWritten(last.c)
          /\ InputAppended(last.c)
          /\ OutputAppended(last.c)

\* a call has incremented, written its entry and appended its input, and
\* not yet its output
C13_Witness ==
    /\ pc[1] = 4
    /\ Incremented(1)
    /\ EntryWritten(1)
    /\ InputAppended(1)
    /\ OutputNotAppended(1)

\* the calls of the concurrent clients have all ended, and no flushdb ran in
\* the middle of one
AllCompleted == Idle /\ Constructed /\ ~flushedInFlight

\* C14: when the concurrent store calls have all completed, each index of
\* the history lists holds the arguments and the returned key of one and
\* the same call.
C14_PairedWhenInterleaved ==
    AllCompleted =>
        /\ Len(InputsOf(db)) = Len(OutputsOf(db))
        /\ \A k \in 1..Len(InputsOf(db)) :
              \E j \in 1..Len(log) :
                  /\ InputsOf(db)[k] = Utf8Encode(TupleStr(log[j].args)).b
                  /\ OutputsOf(db)[k] = Utf8Encode(PyStrOf(log[j].output)).b

\* the output of the first call to append its input is not the first output
CrossedHistory ==
    /\ Len(log) = 2
    /\ Len(InputsOf(db)) = 2
    /\ Len(OutputsOf(db)) = 2
    /\ \E j \in 1..2 :
          /\ InputsOf(db)[1] = Utf8Encode(TupleStr(log[j].args)).b
          /\ OutputsOf(db)[1] # Utf8Encode(PyStrOf(log[j].output)).b
          /\ InputsOf(db)[1] # InputsOf(db)[2]

\* C15: when the concurrent store calls have all completed, with no Cache
\* constructed while one was in flight, the counter equals the number of
\* calls started.
C15_NoLostIncrement == AllCompleted => CounterOf(db) = calls

\* two calls whose commands interleaved (their history is crossed) have
\* completed and the counter reads 2
C15_Witness ==
    /\ AllCompleted
    /\ calls = 2
    /\ CounterOf(db) = 2
    /\ CrossedHistory

\* C16: in sequential use of store on one Cache, in every state, inside a
\* call and after a failed call included, counter >= len(inputs) >=
\* len(outputs) >= len(inputs) - 1, and between calls the lists are equally
\* long.
C16_CounterBoundsHistory ==
    Constructed =>
        /\ CounterOf(db) >= Len(InputsOf(db))
        /\ Len(InputsOf(db)) >= Len(OutputsOf(db))
        /\ Len(OutputsOf(db)) >= Len(InputsOf(db)) - 1
        /\ Idle => Len(InputsOf(db)) = Len(OutputsOf(db))

\* after a call that raised, a second call has appended its input and not
\* yet its output: counter 2, one input, no output
C16_Witness ==
    /\ Constructed
    /\ pc[1] = 4
    /\ CounterOf(db) = 2
    /\ Len(InputsOf(db)) = 1
    /\ Len(OutputsOf(db)) = 0

ReadOps == {"get", "get_str", "get_int", "replay"}

\* C17: a step in which get, get_str, get_int or replay ends, with a value
\* or an exception, leaves the database as it was; the database changes
\* only in the steps of a store call and in a construction.
C17_ReadsWriteNothing ==
    [][/\ last'.op \in ReadOps => db' = db
       /\ db' # db =>
             \/ \E c \in Clients : Construct(c)
             \/ \E c \in Clients : pc[c] # 0]_vars

\* get_str raised on a missing key while the database held a counter, both
\* lists and an entry
C17_Witness ==
    /\ last.op = "get_str"
    /\ last.res.exc # ""
    /\ CounterOf(db) = 1
    /\ Len(InputsOf(db)) = 1
    /\ Len(OutputsOf(db)) = 1

====
